---- MODULE Spec2Model ----
(***************************************************************************)
(* The gcongestion Pacer of quiche (recovery/gcongestion/pacer.rs) as a    *)
(* state machine.  The pacer's own fields are the state; the wrapped       *)
(* congestion controller (`sender`) is an external collaborator whose      *)
(* answers are chosen nondeterministically at every query, and every call  *)
(* the pacer makes on it is recorded in `trace`.                           *)
(*                                                                         *)
(* Units: instants and durations are microseconds, rates are kilobits per  *)
(* second, sizes are bytes.                                                *)
(*                                                                         *)
(* The StreamIdAllocator of h3i (h3i/src/lib.rs) is a second, independent  *)
(* object with its own variables and its own specification, AllocatorSpec. *)
(***************************************************************************)
EXTENDS Integers, Sequences, FiniteSets, TLC

\* ---------------------------------------------------------------- bounds
\* Largest instant the release clock may reach (guards OnPacketSent).
MaxTime == 3000
\* Most ids the allocator hands out (guards TakeNextId); the ids stay far
\* below the range of u64.
MaxTakes == 40

\* ------------------------------------------------------------- constants
LUMPY_PACING_SIZE == 2
LUMPY_PACING_MIN_BANDWIDTH_KBPS == 1200
INITIAL_UNPACED_BURST == 10
\* Datagram size the sender divides its window by (cwnd_in_packets).
Mss == 1200

\* --------------------------------------------------------- input domains
SentTimes == {0, 1000}
BytesInFlight == {0, 1200, 14400}
PacketSizes == {1200}
PacketNumbers == {1}
\* Sender congestion windows, in bytes: 0, 3 and 12 packets.
CongestionWindows == {0, 3600, 14400}
\* The windows the sender reports to the refresh of a lump outside a
\* quiescence exit: 0, 7, 8 and 12 packets.
LumpWindows == {0, 8400, 9600, 14400}
\* Rates the sender may report as its pacing rate.
SenderRates == {0, 10000}
\* Sender rates tried on Pacer::pacing_rate alone: below, at and above the cap.
QueriedRates == {0, 3000, 5000, 10000}
\* Bandwidth estimates the sender may report (500 kbps, 10 Mbps).
BandwidthEstimates == {500, 10000}
SmoothedRtts == {50000}
MssValues == {1200, 1350}
LostLists == {<<>>, <<1>>}
AckedLists == {<<2>>}

Min(a, b) == IF a <= b THEN a ELSE b
Max(a, b) == IF a >= b THEN a ELSE b

\* ------------------------------------------------------------ value types
\* Option<Bandwidth>
None == [some |-> FALSE, rate |-> 0]
Some(r) == [some |-> TRUE, rate |-> r]
MaxPacingRates == {None, Some(5000)}

\* ReleaseTime
Immediate == [kind |-> "Immediate", at |-> 0]
At(t) == [kind |-> "At", at |-> t]

\* ReleaseTime::set_max
set_max(rt, t) ==
  IF rt.kind = "Immediate" THEN At(t) ELSE At(Max(rt.at, t))

\* ReleaseTime::inc (only ever applied to At(_), right after set_max)
inc(rt, d) ==
  IF rt.kind = "At" THEN At(rt.at + d) ELSE rt

\* Bandwidth::transfer_time, in microseconds; a zero rate gives zero.
transfer_time(rate, bytes) ==
  IF rate = 0 THEN 0 ELSE (bytes * 8 * 1000) \div rate

\* Bandwidth * 1.25f32
TimesOneAndAQuarter(rate) == (rate * 5) \div 4

\* Bandwidth::to_bytes_per_period, the period in microseconds.
to_bytes_per_period(rate, period) == ((rate * period) \div 8) \div 1000

\* Congestion::get_congestion_window_in_packets
get_congestion_window_in_packets(cwnd) == cwnd \div Mss

\* ------------------------------------------------------------------ state
VARIABLES
  enabled,                      \* Pacer::enabled
  max_pacing_rate,              \* Pacer::max_pacing_rate
  burst_tokens,                 \* Pacer::burst_tokens
  ideal_next_packet_send_time,  \* Pacer::ideal_next_packet_send_time
  initial_burst_size,           \* Pacer::initial_burst_size
  lumpy_tokens,                 \* Pacer::lumpy_tokens
  pacing_limited,               \* Pacer::pacing_limited
  now,                          \* the caller's monotonic clock (last Instant passed in)
  trace,                        \* calls on the sender and field writes of the last operation, in order
  last,                         \* the last operation and the path it took
  prev,                         \* the pacer's fields before the last operation
  ret,                          \* value returned by the last operation
  burst_run,                    \* history: the sends since the last quiescence exit
  lump_run,                     \* history: the lumpy sends since the burst ran out
  id,                           \* StreamIdAllocator::id
  handed,                       \* history: the ids take_next_id returned, in order
  peeks,                        \* history: the ids peek_next_id returned since the last take_next_id
  id_last                       \* the allocator's last operation

\* The variables of the pacer and those of the allocator.
pacer == <<enabled, max_pacing_rate, burst_tokens, ideal_next_packet_send_time,
           initial_burst_size, lumpy_tokens, pacing_limited, now, trace, last,
           prev, ret, burst_run, lump_run>>

allocator == <<id, handed, peeks, id_last>>

vars == <<pacer, allocator>>

config == <<enabled, max_pacing_rate, initial_burst_size>>

\* The pacer's mutable fields as one record.
Fields ==
  [burst_tokens |-> burst_tokens,
   lumpy_tokens |-> lumpy_tokens,
   ideal_next_packet_send_time |-> ideal_next_packet_send_time,
   pacing_limited |-> pacing_limited]

\* A call on the sender with its arguments and the answer it gave.
Call(m, args, r) == [m |-> m, args |-> args, ret |-> r]
\* An assignment to a pacer field.
Write(f, v) == [m |-> f, args |-> <<v>>, ret |-> <<>>]

Unit == <<>>

\* The last operation: its name and arguments; for on_packet_sent the path
\* taken, the burst tokens a refill granted and the size of a fresh lump (-1
\* when there was none) and the pacing delay.
Op(name, args, path, refill, fresh, delay) ==
  [op |-> name, args |-> args, path |-> path, refill |-> refill,
   fresh |-> fresh, delay |-> delay]

\* An operation other than on_packet_sent.
Plain(name, args) == Op(name, args, "none", -1, -1, 0)

\* History of the sends that follow a quiescence exit: `k` is the window in
\* packets the sender reported at the exit and `sent` counts the
\* retransmissible sends from the exit on.  The run is over (NoRun) after a
\* loss event, after a send that found nothing in flight without being a
\* quiescence exit, and after the send that follows the run's first
\* lumpy-path send.
NoRun == [k |-> -1, sent |-> 0]

RunAfterSend(bytes_in_flight, refill, cwnd_in_packets) ==
  IF refill THEN [k |-> cwnd_in_packets, sent |-> 1]
  ELSE IF bytes_in_flight = 0 \/ burst_run.k < 0 THEN NoRun
  ELSE IF burst_run.sent > Min(INITIAL_UNPACED_BURST, burst_run.k) THEN NoRun
  ELSE [k |-> burst_run.k, sent |-> burst_run.sent + 1]

RunAfterEvent(lost_packets) ==
  IF lost_packets # <<>> THEN NoRun ELSE burst_run

\* History of the lumpy-path sends that follow the exhaustion of the burst at
\* a steady high rate: `n` is 0 once a burst-path send has spent the last
\* burst token, then counts the lumpy-path sends of SteadyPacket bytes made
\* at SteadyRate while the sender allows further sends, the first of them
\* starting a lump of LUMPY_PACING_SIZE; `first` and `second` are their send
\* times.  The history ends (NoLump) with any other retransmissible send, with
\* the send after the second and with on_app_limited.
SteadyRate == 10000
SteadyPacket == 1200

NoLump == [n |-> -1, first |-> 0, second |-> 0]

LumpAfterBurst(tokens_left) ==
  IF tokens_left = 0 THEN [n |-> 0, first |-> 0, second |-> 0] ELSE NoLump

LumpAfterLumpy(sent_time, steady) ==
  IF ~steady THEN NoLump
  ELSE IF lump_run.n = 0 THEN [n |-> 1, first |-> sent_time, second |-> 0]
  ELSE IF lump_run.n = 1
    THEN [n |-> 2, first |-> lump_run.first, second |-> sent_time]
  ELSE NoLump

\* ------------------------------------------------ h3i StreamIdAllocator
\* The allocator's last operation: its name, the value it returned, the id
\* field before it and the ids peeked since the take before it.
IdOp(name, r, before, peeked) ==
  [op |-> name, ret |-> r, before |-> before, peeked |-> peeked]

\* StreamIdAllocator::default (derived): id is 0.
AllocatorInit ==
  /\ id = 0
  /\ handed = <<>>
  /\ peeks = {}
  /\ id_last = IdOp("default", Unit, 0, {})

\* StreamIdAllocator::take_next_id
TakeNextId ==
  /\ Len(handed) < MaxTakes
  /\ id' = id + 4
  /\ handed' = Append(handed, id)
  /\ peeks' = {}
  /\ id_last' = IdOp("take_next_id", id, id, peeks)

\* Mutant: peek_next_id uses its mutable receiver and advances the id.
PeekNextId_Advances ==
  /\ id' = id + 4
  /\ UNCHANGED handed
  /\ peeks' = peeks \cup {id}
  /\ id_last' = IdOp("peek_next_id", id, id, peeks)

\* StreamIdAllocator::peek_next_id
PeekNextId ==
  /\ UNCHANGED <<id, handed>>
  /\ peeks' = peeks \cup {id}
  /\ id_last' = IdOp("peek_next_id", id, id, peeks)

\* Pacer::new
Init ==
  /\ AllocatorInit
  /\ enabled \in BOOLEAN
  /\ max_pacing_rate \in MaxPacingRates
  /\ burst_tokens = INITIAL_UNPACED_BURST
  /\ ideal_next_packet_send_time = Immediate
  /\ initial_burst_size = INITIAL_UNPACED_BURST
  /\ lumpy_tokens = 0
  /\ pacing_limited = FALSE
  /\ now = 0
  /\ trace = <<>>
  /\ last = Plain("new", <<>>)
  /\ prev = Fields
  /\ ret = Unit
  /\ burst_run = NoRun
  /\ lump_run = NoLump

\* Mutant: only burst tokens allow a burst.
ReleaseDecision_BurstTokensOnly ==
  IF ~enabled
    THEN [time |-> Immediate, allow_burst |-> TRUE]
    ELSE [time |-> ideal_next_packet_send_time,
          allow_burst |-> burst_tokens > 0]

\* Pacer::get_next_release_time, the value returned.
ReleaseDecision ==
  IF ~enabled
    THEN [time |-> Immediate, allow_burst |-> TRUE]
    ELSE [time |-> ideal_next_packet_send_time,
          allow_burst |-> burst_tokens > 0 \/ lumpy_tokens > 0]

GetNextReleaseTime ==
  /\ ret' = ReleaseDecision
  /\ trace' = <<>>
  /\ last' = Plain("get_next_release_time", <<>>)
  /\ prev' = Fields
  /\ UNCHANGED <<config, burst_tokens, ideal_next_packet_send_time,
                 lumpy_tokens, pacing_limited, now, burst_run,
                 lump_run>>

\* Mutant: the configured cap is not applied.
PacingRate_IgnoresCap(sender_rate) == sender_rate

\* Pacer::pacing_rate, the value returned for the sender's rate.
PacingRate(sender_rate) ==
  IF max_pacing_rate.some /\ enabled
    THEN Min(max_pacing_rate.rate, sender_rate)
    ELSE sender_rate

\* Mutant: the early return forgets non-retransmissible packets.
SkipsPacing_IgnoresRetransmissible(is_retransmissible) == ~enabled

\* Mutant: the early return forgets the disabled pacer.
SkipsPacing_IgnoresEnabled(is_retransmissible) == ~is_retransmissible

\* on_packet_sent: the early return of the disabled pacer and of
\* non-retransmissible packets.
SkipsPacing(is_retransmissible) == ~enabled \/ ~is_retransmissible

\* Mutant: the refill forgets that a sender in recovery is not quiescent.
LeavingQuiescence_IgnoresRecovery(bytes_in_flight, in_recovery) ==
  bytes_in_flight = 0

\* on_packet_sent: is the connection leaving quiescence?
LeavingQuiescence(bytes_in_flight, in_recovery) ==
  bytes_in_flight = 0 /\ ~in_recovery

\* Mutant: the refill forgets the congestion window.
RefilledBurstTokens_IgnoresCwnd(cwnd_in_packets) == initial_burst_size

\* on_packet_sent: burst tokens granted when leaving quiescence.
RefilledBurstTokens(cwnd_in_packets) ==
  Min(initial_burst_size, cwnd_in_packets)

\* Mutant: every lumpy-path send starts a fresh lump.
ResetsLumpyTokens_Always == TRUE

\* Mutant: a pacing-limited pacer never starts a fresh lump.
ResetsLumpyTokens_OnlyWhenNotLimited == ~pacing_limited

\* on_packet_sent: does the lumpy path start a fresh lump?
ResetsLumpyTokens == ~pacing_limited \/ lumpy_tokens = 0

\* Mutant: a fresh lump is always a single packet.
FreshLumpyTokens_NoLump(cwnd, bandwidth, in_flight_after) == 1

\* Mutant: a fresh lump is sized from a third of the window.
FreshLumpyTokens_ThirdOfWindow(cwnd, bandwidth, in_flight_after) ==
  LET base == Max(1, Min(LUMPY_PACING_SIZE,
                         get_congestion_window_in_packets(cwnd) \div 3))
      slow == IF bandwidth < LUMPY_PACING_MIN_BANDWIDTH_KBPS
                THEN 1 ELSE base
  IN IF in_flight_after >= cwnd THEN 1 ELSE slow

\* Mutant: a fresh lump is a quarter of the window without the cap of
\* LUMPY_PACING_SIZE.
FreshLumpyTokens_Uncapped(cwnd, bandwidth, in_flight_after) ==
  LET base == Max(1, get_congestion_window_in_packets(cwnd) \div 4)
      slow == IF bandwidth < LUMPY_PACING_MIN_BANDWIDTH_KBPS
                THEN 1 ELSE base
  IN IF in_flight_after >= cwnd THEN 1 ELSE slow

\* on_packet_sent: the size of a fresh lump.  The f64 product
\* cwnd_in_packets * 0.25 cast to usize is the floor of a quarter.
FreshLumpyTokens(cwnd, bandwidth, in_flight_after) ==
  LET base == Max(1, Min(LUMPY_PACING_SIZE,
                         get_congestion_window_in_packets(cwnd) \div 4))
      slow == IF bandwidth < LUMPY_PACING_MIN_BANDWIDTH_KBPS
                THEN 1 ELSE base
  IN IF in_flight_after >= cwnd THEN 1 ELSE slow

\* Mutant: the clock restarts from sent_time instead of being clamped up to it.
AdvancedReleaseTime_FromSentTime(rt, sent_time, delay) ==
  inc(At(sent_time), delay)

\* Mutant: the clock is clamped up to sent_time but the delay is not added.
AdvancedReleaseTime_NoDelay(rt, sent_time, delay) == set_max(rt, sent_time)

\* Mutant: a zero delay resets the clock to Immediate.
AdvancedReleaseTime_ZeroDelayResets(rt, sent_time, delay) ==
  IF delay = 0 THEN Immediate ELSE inc(set_max(rt, sent_time), delay)

\* on_packet_sent: the release clock after a lumpy-path send.
AdvancedReleaseTime(rt, sent_time, delay) ==
  inc(set_max(rt, sent_time), delay)

\* The answers the sender may give to a query: drawn from `domain` when the
\* handler reaches the query, a placeholder when it does not.
Answers(asked, domain, placeholder) ==
  IF asked THEN domain ELSE {placeholder}

\* Mutant: the sender is told the bytes in flight after the packet.
ForwardedSend_InFlightAfter(sent_time, bytes_in_flight, packet_number, bytes, is_retransmissible, rtt) ==
  <<Call("sender.on_packet_sent",
         <<sent_time, bytes_in_flight + bytes, packet_number, bytes,
           is_retransmissible, rtt>>, Unit)>>

\* on_packet_sent: the call forwarded to the sender.
ForwardedSend(sent_time, bytes_in_flight, packet_number, bytes, is_retransmissible, rtt) ==
  <<Call("sender.on_packet_sent",
         <<sent_time, bytes_in_flight, packet_number, bytes,
           is_retransmissible, rtt>>, Unit)>>

\* Mutant: the burst path leaves pacing_limited as it was.
BurstPath_KeepsPacingLimited(args, tokens, refill, sofar) ==
  /\ burst_tokens' = tokens - 1
  /\ ideal_next_packet_send_time' = Immediate
  /\ UNCHANGED <<pacing_limited, lumpy_tokens>>
  /\ trace' = sofar
       \o <<Write("burst_tokens", tokens - 1),
            Write("ideal_next_packet_send_time", Immediate)>>
  /\ last' = Op("on_packet_sent", args, "burst",
                IF refill THEN tokens ELSE -1, -1, 0)
  /\ lump_run' = LumpAfterBurst(tokens - 1)

\* on_packet_sent, burst path: a token is spent and the packet is unpaced.
BurstPath(args, tokens, refill, sofar) ==
  /\ burst_tokens' = tokens - 1
  /\ ideal_next_packet_send_time' = Immediate
  /\ pacing_limited' = FALSE
  /\ UNCHANGED lumpy_tokens
  /\ trace' = sofar
       \o <<Write("burst_tokens", tokens - 1),
            Write("ideal_next_packet_send_time", Immediate),
            Write("pacing_limited", FALSE)>>
  /\ last' = Op("on_packet_sent", args, "burst",
                IF refill THEN tokens ELSE -1, -1, 0)
  /\ lump_run' = LumpAfterBurst(tokens - 1)

\* on_packet_sent, lumpy path: the lump is refreshed if need be, one lumpy
\* token is spent and the release clock advances by the transfer time.
LumpyPath(args, tokens, refill, cwnd, sofar) ==
  LET sent_time == args[1]
      bytes == args[4]
      rtt == args[6]
      in_flight_after == args[2] + bytes
      cwnd_in_packets == get_congestion_window_in_packets(cwnd)
      reset == ResetsLumpyTokens
      base == Max(1, Min(LUMPY_PACING_SIZE, cwnd_in_packets \div 4))
  IN \E sender_rate \in SenderRates, can_send \in BOOLEAN,
        bandwidth \in Answers(reset, BandwidthEstimates, 0) :
       LET delay == transfer_time(PacingRate(sender_rate), bytes)
           fresh == FreshLumpyTokens(cwnd, bandwidth, in_flight_after)
           lump == IF reset THEN fresh ELSE lumpy_tokens
           refresh ==
             IF reset
               THEN <<Call("sender.get_congestion_window_in_packets", <<>>,
                           cwnd_in_packets),
                      Write("lumpy_tokens", base),
                      Call("sender.bandwidth_estimate", <<rtt>>, bandwidth)>>
                    \o (IF bandwidth < LUMPY_PACING_MIN_BANDWIDTH_KBPS
                          THEN <<Write("lumpy_tokens", 1)>> ELSE <<>>)
                    \o <<Call("sender.get_congestion_window", <<>>, cwnd)>>
                    \o (IF in_flight_after >= cwnd
                          THEN <<Write("lumpy_tokens", 1)>> ELSE <<>>)
               ELSE <<>>
           release == AdvancedReleaseTime(ideal_next_packet_send_time,
                                          sent_time, delay)
       IN /\ release.at <= MaxTime
          /\ burst_tokens' = tokens
          /\ lumpy_tokens' = lump - 1
          /\ ideal_next_packet_send_time' = release
          /\ pacing_limited' = can_send
          /\ trace' = sofar
               \o <<Call("sender.pacing_rate", <<in_flight_after, rtt>>,
                         sender_rate)>>
               \o refresh
               \o <<Write("lumpy_tokens", lump - 1),
                    Write("ideal_next_packet_send_time", release),
                    Call("sender.can_send", <<in_flight_after>>, can_send),
                    Write("pacing_limited", can_send)>>
          /\ last' = Op("on_packet_sent", args, "lumpy",
                        IF refill THEN tokens ELSE -1,
                        IF reset THEN fresh ELSE -1, delay)
          /\ lump_run' = LumpAfterLumpy(sent_time,
               /\ bytes = SteadyPacket
               /\ PacingRate(sender_rate) = SteadyRate
               /\ can_send
               /\ reset => /\ bandwidth = SteadyRate
                           /\ cwnd_in_packets >= 4 * LUMPY_PACING_SIZE
                           /\ in_flight_after < cwnd)

\* Pacer::on_packet_sent
OnPacketSent(sent_time, bytes_in_flight, packet_number, bytes, is_retransmissible, rtt) ==
  LET args == <<sent_time, bytes_in_flight, packet_number, bytes,
                is_retransmissible, rtt>>
      forward == ForwardedSend(sent_time, bytes_in_flight, packet_number,
                               bytes, is_retransmissible, rtt)
  IN /\ sent_time >= now
     /\ now' = sent_time
     /\ prev' = Fields
     /\ ret' = Unit
     /\ UNCHANGED config
     /\ IF SkipsPacing(is_retransmissible)
          THEN /\ trace' = forward
               /\ last' = Op("on_packet_sent", args, "none", -1, -1, 0)
               /\ UNCHANGED <<burst_tokens, ideal_next_packet_send_time,
                              lumpy_tokens, pacing_limited, burst_run,
                              lump_run>>
          ELSE \* `bytes_in_flight == 0 && !is_in_recovery()` asks the sender
               \* only when the first operand holds.
               \E in_recovery \in Answers(bytes_in_flight = 0, BOOLEAN, FALSE) :
                 LET refill == LeavingQuiescence(bytes_in_flight, in_recovery)
                 IN \* The window is read by the refill and by the refresh of
                    \* the lump; no call on the sender lies between the two.
                    \E cwnd \in Answers(refill \/ (burst_tokens = 0
                                                   /\ ResetsLumpyTokens),
                                        IF refill THEN CongestionWindows
                                                  ELSE LumpWindows, 0) :
                      LET cwnd_in_packets ==
                            get_congestion_window_in_packets(cwnd)
                          tokens == IF refill
                                      THEN RefilledBurstTokens(cwnd_in_packets)
                                      ELSE burst_tokens
                          sofar ==
                            forward
                            \o (IF bytes_in_flight = 0
                                  THEN <<Call("sender.is_in_recovery", <<>>,
                                              in_recovery)>>
                                  ELSE <<>>)
                            \o (IF refill
                                  THEN <<Call("sender.get_congestion_window_in_packets",
                                              <<>>, cwnd_in_packets),
                                         Write("burst_tokens", tokens)>>
                                  ELSE <<>>)
                      IN /\ burst_run' = RunAfterSend(bytes_in_flight, refill,
                                                      cwnd_in_packets)
                         /\ IF tokens > 0
                              THEN BurstPath(args, tokens, refill, sofar)
                              ELSE LumpyPath(args, tokens, refill, cwnd,
                                             sofar)

\* Mutant: a loss leaves the burst credit alone.
BurstTokensAfterEvent_KeepsCredit(lost_packets) == burst_tokens

\* Pacer::on_congestion_event: burst tokens left after the event.
BurstTokensAfterEvent(lost_packets) ==
  IF lost_packets # <<>> THEN 0 ELSE burst_tokens

\* Mutant: the window is capped on every event.
LimitsCwnd_IgnoresRttUpdated(rtt_updated) == max_pacing_rate.some

\* Pacer::on_congestion_event: is the sender's window capped?
LimitsCwnd(rtt_updated) == max_pacing_rate.some /\ rtt_updated

\* Pacer::on_congestion_event: the window cap handed to limit_cwnd.
MaxCwnd(smoothed_rtt) ==
  to_bytes_per_period(TimesOneAndAQuarter(max_pacing_rate.rate), smoothed_rtt)

\* on_congestion_event: the call forwarded to the sender.
ForwardedEvent(rtt_updated, prior_in_flight, bytes_in_flight, event_time, acked_packets, lost_packets, least_unacked, rtt) ==
  <<Call("sender.on_congestion_event",
         <<rtt_updated, prior_in_flight, bytes_in_flight, event_time,
           acked_packets, lost_packets, least_unacked, rtt>>, Unit)>>

OnCongestionEvent(rtt_updated, prior_in_flight, bytes_in_flight, event_time, acked_packets, lost_packets, least_unacked, rtt) ==
  LET args == <<rtt_updated, prior_in_flight, bytes_in_flight, event_time,
                acked_packets, lost_packets, least_unacked, rtt>>
      forward == ForwardedEvent(rtt_updated, prior_in_flight, bytes_in_flight,
                                event_time, acked_packets, lost_packets,
                                least_unacked, rtt)
  IN /\ event_time >= now
     /\ now' = event_time
     /\ prev' = Fields
     /\ ret' = Unit
     /\ last' = Plain("on_congestion_event", args)
     /\ burst_run' = RunAfterEvent(lost_packets)
     /\ UNCHANGED lump_run
     /\ UNCHANGED <<config, ideal_next_packet_send_time, lumpy_tokens,
                    pacing_limited>>
     /\ IF ~enabled
          THEN /\ trace' = forward
               /\ UNCHANGED burst_tokens
          ELSE /\ burst_tokens' = BurstTokensAfterEvent(lost_packets)
               /\ trace' = forward
                    \o (IF lost_packets # <<>>
                          THEN <<Write("burst_tokens", 0)>> ELSE <<>>)
                    \o (IF LimitsCwnd(rtt_updated)
                          THEN <<Call("sender.limit_cwnd",
                                      <<MaxCwnd(rtt)>>, Unit)>>
                          ELSE <<>>)

\* Mutant: the forwarding handlers restart the release clock.
Forward_RestartsClock(name, args) ==
  /\ trace' = <<Call(name, args, Unit)>>
  /\ prev' = Fields
  /\ ret' = Unit
  /\ ideal_next_packet_send_time' = Immediate
  /\ UNCHANGED <<config, burst_tokens, lumpy_tokens, pacing_limited, now,
                 burst_run, lump_run>>

\* The handlers that only forward to the sender.
Forward(name, args) ==
  /\ trace' = <<Call(name, args, Unit)>>
  /\ prev' = Fields
  /\ ret' = Unit
  /\ UNCHANGED <<config, burst_tokens, ideal_next_packet_send_time,
                 lumpy_tokens, pacing_limited, now, burst_run,
                 lump_run>>

\* Pacer::on_packet_neutered
OnPacketNeutered(packet_number) ==
  /\ Forward("sender.on_packet_neutered", <<packet_number>>)
  /\ last' = Plain("on_packet_neutered", <<packet_number>>)

\* Pacer::on_retransmission_timeout
OnRetransmissionTimeout(packets_retransmitted) ==
  /\ Forward("sender.on_retransmission_timeout", <<packets_retransmitted>>)
  /\ last' = Plain("on_retransmission_timeout", <<packets_retransmitted>>)

\* Pacer::update_mss
UpdateMss(new_mss) ==
  /\ Forward("sender.update_mss", <<new_mss>>)
  /\ last' = Plain("update_mss", <<new_mss>>)

\* Mutant: on_app_limited only forwards to the sender.
OnAppLimited_KeepsFlag(bytes_in_flight) ==
  /\ trace' = <<Call("sender.on_app_limited", <<bytes_in_flight>>, Unit)>>
  /\ last' = Plain("on_app_limited", <<bytes_in_flight>>)
  /\ prev' = Fields
  /\ ret' = Unit
  /\ lump_run' = NoLump
  /\ UNCHANGED <<config, burst_tokens, ideal_next_packet_send_time,
                 lumpy_tokens, pacing_limited, now, burst_run>>

\* Pacer::on_app_limited
OnAppLimited(bytes_in_flight) ==
  /\ pacing_limited' = FALSE
  /\ trace' = <<Write("pacing_limited", FALSE),
                Call("sender.on_app_limited", <<bytes_in_flight>>, Unit)>>
  /\ last' = Plain("on_app_limited", <<bytes_in_flight>>)
  /\ prev' = Fields
  /\ ret' = Unit
  /\ lump_run' = NoLump
  /\ UNCHANGED <<config, burst_tokens, ideal_next_packet_send_time,
                 lumpy_tokens, now, burst_run>>

\* Pacer::pacing_rate called by the owner of the pacer.
PacingRateQuery(bytes_in_flight, rtt, sender_rate) ==
  /\ ret' = PacingRate(sender_rate)
  /\ trace' = <<Call("sender.pacing_rate", <<bytes_in_flight, rtt>>,
                     sender_rate)>>
  /\ last' = Plain("pacing_rate", <<bytes_in_flight, rtt>>)
  /\ prev' = Fields
  /\ UNCHANGED <<config, burst_tokens, ideal_next_packet_send_time,
                 lumpy_tokens, pacing_limited, now, burst_run,
                 lump_run>>

Next ==
  \/ GetNextReleaseTime /\ UNCHANGED allocator
  \/ \E sent_time \in SentTimes, bytes_in_flight \in BytesInFlight,
        packet_number \in PacketNumbers, bytes \in PacketSizes,
        is_retransmissible \in BOOLEAN, rtt \in SmoothedRtts :
       OnPacketSent(sent_time, bytes_in_flight, packet_number, bytes,
                    is_retransmissible, rtt) /\ UNCHANGED allocator
  \/ \E rtt_updated \in BOOLEAN, acked_packets \in AckedLists,
        lost_packets \in LostLists, rtt \in SmoothedRtts :
       OnCongestionEvent(rtt_updated, 2400, 1200, now, acked_packets,
                         lost_packets, 1, rtt) /\ UNCHANGED allocator
  \/ \E packet_number \in PacketNumbers :
       OnPacketNeutered(packet_number) /\ UNCHANGED allocator
  \/ \E packets_retransmitted \in BOOLEAN :
       OnRetransmissionTimeout(packets_retransmitted) /\ UNCHANGED allocator
  \/ \E new_mss \in MssValues : UpdateMss(new_mss) /\ UNCHANGED allocator
  \/ OnAppLimited(1200) /\ UNCHANGED allocator
  \/ \E rtt \in SmoothedRtts, sender_rate \in QueriedRates :
       PacingRateQuery(1200, rtt, sender_rate) /\ UNCHANGED allocator

Spec == Init /\ [][Next]_vars

\* The allocator on its own: any sequence of take_next_id and peek_next_id
\* calls on the default allocator, beside a pacer that is left as made.
AllocatorStart == Init /\ enabled /\ max_pacing_rate = None

AllocatorNext ==
  \/ TakeNextId /\ UNCHANGED pacer
  \/ PeekNextId /\ UNCHANGED pacer

AllocatorSpec == AllocatorStart /\ [][AllocatorNext]_vars

\* ------------------------------------------------- reading the last operation
LastSend == last.op = "on_packet_sent"
\* Arguments of the last on_packet_sent.
SentTime == last.args[1]
SentBytesInFlight == last.args[2]
SentBytes == last.args[4]
SentRetransmissible == last.args[5]
\* Did the last operation put the query `m` to the sender, and the answer.
Asked(m) == \E i \in DOMAIN trace : trace[i].m = m
AnswerTo(m) == trace[CHOOSE i \in DOMAIN trace : trace[i].m = m].ret
\* How often the last operation called `m` on the sender.
Calls(m) == Cardinality({i \in DOMAIN trace : trace[i].m = m})

\* ------------------------------------------------------------------ claims

\* C1: a disabled pacer is a pass-through.  Whatever operations have run,
\* get_next_release_time returns (Immediate, allow_burst = TRUE) and
\* burst_tokens, lumpy_tokens and ideal_next_packet_send_time still hold the
\* values Pacer::new gave them.
C1_DisabledPassThrough ==
  ~enabled =>
    /\ burst_tokens = INITIAL_UNPACED_BURST
    /\ lumpy_tokens = 0
    /\ ideal_next_packet_send_time = Immediate
    /\ ReleaseDecision = [time |-> Immediate, allow_burst |-> TRUE]
    /\ last.op = "get_next_release_time" =>
         ret = [time |-> Immediate, allow_burst |-> TRUE]

\* A disabled pacer has handled a retransmissible send out of quiescence, the
\* send on which an enabled pacer spends a burst token.
C1_Witness ==
  /\ ~enabled
  /\ LastSend
  /\ SentRetransmissible
  /\ SentBytesInFlight = 0
  /\ now > 0
  /\ burst_tokens = INITIAL_UNPACED_BURST

\* C2: on an enabled pacer get_next_release_time returns
\* (ideal_next_packet_send_time, burst_tokens > 0 \/ lumpy_tokens > 0),
\* changes no field of the pacer and makes no call on the sender.
C2_ReleaseTimeIsPureObservation ==
  (enabled /\ last.op = "get_next_release_time") =>
    /\ ret.time = ideal_next_packet_send_time
    /\ ret.allow_burst = (burst_tokens > 0 \/ lumpy_tokens > 0)
    /\ Fields = prev
    /\ trace = <<>>

\* The release time was read with the burst exhausted, a lumpy token left
\* and the clock at an instant.
C2_Witness ==
  /\ enabled
  /\ last.op = "get_next_release_time"
  /\ burst_tokens = 0
  /\ lumpy_tokens > 0
  /\ ideal_next_packet_send_time.kind = "At"
  /\ ret.allow_burst

\* C3: on an enabled pacer a retransmissible send refills burst_tokens
\* exactly when bytes_in_flight is 0 and the sender is not in recovery; the
\* refilled value is min(INITIAL_UNPACED_BURST, cwnd in packets), hence at
\* most 10 and at most the window; without a refill burst_tokens does not grow.
C3_BurstNeverExceedsCwnd ==
  (enabled /\ LastSend /\ SentRetransmissible) =>
    /\ (last.refill # -1) <=>
         (/\ SentBytesInFlight = 0
          /\ Asked("sender.is_in_recovery")
          /\ ~AnswerTo("sender.is_in_recovery"))
    /\ last.refill # -1 =>
         /\ Asked("sender.get_congestion_window_in_packets")
         /\ last.refill =
              Min(INITIAL_UNPACED_BURST,
                  AnswerTo("sender.get_congestion_window_in_packets"))
         /\ last.refill <= INITIAL_UNPACED_BURST
         /\ last.refill <= AnswerTo("sender.get_congestion_window_in_packets")
         /\ burst_tokens = Max(last.refill - 1, 0)
    /\ last.refill = -1 => burst_tokens = Max(prev.burst_tokens - 1, 0)

\* A quiescence exit refilled an empty burst to a window of three packets.
C3_Witness ==
  /\ enabled
  /\ LastSend
  /\ SentRetransmissible
  /\ prev.burst_tokens = 0
  /\ last.refill = 3
  /\ burst_tokens = 2

\* The last operation was a congestion event reporting lost packets.
LossEvent == last.op = "on_congestion_event" /\ last.args[6] # <<>>

\* The last operation was a quiescence exit: a retransmissible send with no
\* bytes in flight before it while the sender said it was not in recovery.
QuiescenceExit ==
  /\ LastSend
  /\ SentRetransmissible
  /\ SentBytesInFlight = 0
  /\ Asked("sender.is_in_recovery")
  /\ ~AnswerTo("sender.is_in_recovery")

\* C4 as stated: after any congestion event with a non-empty lost list
\* burst_tokens is 0.
C4_AsStated == LossEvent => burst_tokens = 0

\* C4, amended to the enabled pacer: a congestion event with a non-empty lost
\* list leaves burst_tokens = 0; once burst_tokens is 0 every operation other
\* than a quiescence exit leaves it 0; and a retransmissible send that finds
\* burst_tokens = 0 and is no quiescence exit takes the lumpy path.
C4_LossCancelsBurstCredit ==
  enabled =>
    /\ LossEvent => burst_tokens = 0
    /\ (prev.burst_tokens = 0 /\ ~QuiescenceExit) => burst_tokens = 0
    /\ (prev.burst_tokens = 0 /\ LastSend /\ SentRetransmissible
          /\ ~QuiescenceExit) => last.path = "lumpy"

\* A loss event cancelled burst credit that was still unspent.
C4_Witness ==
  /\ enabled
  /\ LossEvent
  /\ prev.burst_tokens > 0
  /\ burst_tokens = 0

\* C5 as stated: once a send has taken the lumpy path (the release time is an
\* instant), no later operation makes the release time Immediate or earlier.
C5_AsStated ==
  prev.ideal_next_packet_send_time.kind = "At" =>
    /\ ideal_next_packet_send_time.kind = "At"
    /\ ideal_next_packet_send_time.at >= prev.ideal_next_packet_send_time.at

\* C5, amended: once a send has taken the lumpy path the release time is an
\* instant that no operation moves back, except that a quiescence exit which
\* refills at least one burst token takes the burst path and resets it to
\* Immediate; that is the only burst-path send possible from there.
C5_MonotoneClock ==
  prev.ideal_next_packet_send_time.kind = "At" =>
    IF LastSend /\ last.path = "burst"
      THEN /\ QuiescenceExit
           /\ last.refill >= 1
           /\ ideal_next_packet_send_time = Immediate
      ELSE /\ ideal_next_packet_send_time.kind = "At"
           /\ ideal_next_packet_send_time.at
                >= prev.ideal_next_packet_send_time.at
           /\ (LastSend /\ last.path = "lumpy") =>
                ideal_next_packet_send_time.at >= SentTime + last.delay

\* A lumpy-path send found the release clock ahead of its sent_time and
\* advanced it further.
C5_Witness ==
  /\ LastSend
  /\ last.path = "lumpy"
  /\ prev.ideal_next_packet_send_time.kind = "At"
  /\ prev.ideal_next_packet_send_time.at > SentTime
  /\ SentTime > 0
  /\ ideal_next_packet_send_time.at > prev.ideal_next_packet_send_time.at

\* C6: a non-retransmissible on_packet_sent leaves burst_tokens, lumpy_tokens,
\* ideal_next_packet_send_time and pacing_limited unchanged, whatever the
\* bytes in flight, and puts no query to the sender.
C6_NonRetransmissibleIsInert ==
  (LastSend /\ ~SentRetransmissible) =>
    /\ Fields = prev
    /\ last.path = "none"
    /\ Len(trace) = 1

\* An enabled pacer without burst tokens, but with a lumpy token and
\* pacing_limited set, saw a non-retransmissible packet with nothing in flight.
C6_Witness ==
  /\ enabled
  /\ LastSend
  /\ ~SentRetransmissible
  /\ SentBytesInFlight = 0
  /\ burst_tokens = 0
  /\ lumpy_tokens = 1
  /\ pacing_limited

\* C7: pacing_rate returns min(sender rate, R), hence at most R, when the
\* pacer is enabled and max_pacing_rate = R is set, and the sender's rate
\* unchanged otherwise.  The rate that paces a lumpy-path send obeys the cap
\* too: its delay is never shorter than the transfer time at R.
C7_RateCap ==
  /\ last.op = "pacing_rate" =>
       IF enabled /\ max_pacing_rate.some
         THEN /\ ret = Min(AnswerTo("sender.pacing_rate"), max_pacing_rate.rate)
              /\ ret <= max_pacing_rate.rate
         ELSE ret = AnswerTo("sender.pacing_rate")
  /\ (LastSend /\ last.path = "lumpy" /\ max_pacing_rate.some
        /\ AnswerTo("sender.pacing_rate") > 0) =>
       last.delay >= transfer_time(max_pacing_rate.rate, SentBytes)

\* The sender asked for more than the cap and pacing_rate answered the cap.
C7_Witness ==
  /\ enabled
  /\ max_pacing_rate.some
  /\ last.op = "pacing_rate"
  /\ AnswerTo("sender.pacing_rate") > max_pacing_rate.rate
  /\ ret = max_pacing_rate.rate

\* The state before the last operation was pacing-limited with a lumpy token
\* left, and the last operation was a retransmissible send on an enabled pacer.
MakeUpSend ==
  /\ enabled
  /\ LastSend
  /\ SentRetransmissible
  /\ prev.pacing_limited
  /\ prev.lumpy_tokens > 0

\* C8 as stated: the send after a pacing-limited send that left a lumpy token
\* consumes exactly one token of the lump, whatever the bytes in flight.
C8_AsStated ==
  MakeUpSend => lumpy_tokens = prev.lumpy_tokens - 1

\* C8, amended: that send never refreshes lumpy_tokens; on the lumpy path it
\* consumes exactly one token of the existing lump; when it is a quiescence
\* exit that refills burst tokens it takes the burst path and leaves
\* lumpy_tokens as it was.
C8_MakeUpForLostTime ==
  MakeUpSend =>
    /\ last.fresh = -1
    /\ ~Asked("sender.bandwidth_estimate")
    /\ last.path = "lumpy" => lumpy_tokens = prev.lumpy_tokens - 1
    /\ last.path = "burst" =>
         /\ QuiescenceExit
         /\ last.refill >= 1
         /\ lumpy_tokens = prev.lumpy_tokens
    /\ last.path # "none"

\* A lumpy-path send drained the last token of the lump without a refresh.
C8_Witness ==
  /\ MakeUpSend
  /\ last.path = "lumpy"
  /\ prev.lumpy_tokens = 1
  /\ lumpy_tokens = 0

\* C9: every on_packet_sent forwards to sender.on_packet_sent exactly once,
\* with its own arguments and before anything else it does, and every
\* on_congestion_event does the same with sender.on_congestion_event:
\* enabled or not, retransmissible or not, on the burst or the lumpy path.
C9_SenderSeesEveryEvent ==
  /\ LastSend =>
       /\ Len(trace) >= 1
       /\ trace[1].m = "sender.on_packet_sent"
       /\ trace[1].args = last.args
       /\ Calls("sender.on_packet_sent") = 1
  /\ last.op = "on_congestion_event" =>
       /\ Len(trace) >= 1
       /\ trace[1].m = "sender.on_congestion_event"
       /\ trace[1].args = last.args
       /\ Calls("sender.on_congestion_event") = 1

\* A lumpy-path send with bytes in flight was forwarded ahead of the queries
\* and the bookkeeping.
C9_Witness ==
  /\ LastSend
  /\ last.path = "lumpy"
  /\ SentBytesInFlight > 0
  /\ Len(trace) > 4
  /\ trace[1].m = "sender.on_packet_sent"

\* C10: on an enabled pacer, when a retransmissible send exits quiescence with
\* a window of k packets and only retransmissible sends with bytes in flight
\* and no loss event follow, exactly min(10, k) sends, the exit included, take
\* the burst path and leave the release time Immediate; burst_tokens is then
\* 0 and the next send takes the lumpy path.  With k = 0 the exit itself
\* takes the lumpy path.
C10_QuiescenceExitBurstLength ==
  burst_run.k >= 0 =>
    LET burst == Min(10, burst_run.k)
    IN /\ enabled
       /\ burst_run.sent <= burst + 1
       /\ burst_tokens = Max(burst - burst_run.sent, 0)
       /\ (LastSend /\ SentRetransmissible) =>
            /\ last.path = "burst" <=> burst_run.sent <= burst
            /\ last.path = "lumpy" <=> burst_run.sent = burst + 1
            /\ last.path = "burst" =>
                 /\ ideal_next_packet_send_time = Immediate
                 /\ ReleaseDecision.time = Immediate

\* The eleventh send after a quiescence exit with a window of twelve packets
\* took the lumpy path, the ten before it having spent the burst.
C10_Witness ==
  /\ burst_run = [k |-> 12, sent |-> 11]
  /\ LastSend
  /\ last.path = "lumpy"
  /\ burst_tokens = 0

\* ------------------------------------------------------------------ C11

\* The size of the steady scenario's packet delay: one transfer time of a
\* SteadyPacket at SteadyRate.
SteadyDelay == transfer_time(SteadyRate, SteadyPacket)

\* C11 as stated: after the burst ran out the first and the second lumpy send
\* go at once and the third is delayed by one transfer time, that is, the
\* release time left by the second send is its send time plus one transfer
\* time.
C11_AsStated ==
  /\ lump_run.n = 0 => ReleaseDecision.time = Immediate
  /\ lump_run.n = 1 =>
       ReleaseDecision.time = Immediate \/ ReleaseDecision.allow_burst
  /\ lump_run.n = 2 =>
       ReleaseDecision = [time |-> At(lump_run.second + SteadyDelay),
                          allow_burst |-> FALSE]

\* C11: with the burst spent, a pacing rate and bandwidth estimate of
\* SteadyRate, a window of at least 8 packets that the sends do not reach and
\* a sender that allows further sends: the first lumpy send finds the release
\* time Immediate; it starts a lump of 2, leaves one token and moves the clock
\* to its send time plus one transfer time, so the second send may go at once
\* as a burst; the second send spends the last token and moves the clock one
\* more transfer time on, so the third send is held until the later of the
\* first send time plus one transfer time and the second send time, plus one
\* transfer time: two transfer times after the first send when the second
\* went at once.
C11_LumpyPacingAtHighBandwidth ==
  /\ lump_run.n = 0 =>
       /\ ReleaseDecision.time = Immediate
       /\ burst_tokens = 0 /\ ~pacing_limited
  /\ lump_run.n = 1 =>
       /\ ReleaseDecision = [time |-> At(lump_run.first + SteadyDelay),
                             allow_burst |-> TRUE]
       /\ lumpy_tokens = LUMPY_PACING_SIZE - 1
       /\ burst_tokens = 0 /\ pacing_limited
  /\ lump_run.n = 2 =>
       /\ ReleaseDecision =
            [time |-> At(Max(lump_run.first + SteadyDelay, lump_run.second)
                         + SteadyDelay),
             allow_burst |-> FALSE]
       /\ lumpy_tokens = 0 /\ burst_tokens = 0
       /\ lump_run.second = lump_run.first =>
            ideal_next_packet_send_time.at = lump_run.first + 2 * SteadyDelay

\* C11 witness: the second lumpy send went at the instant of the first and the
\* third is held for two transfer times.
C11_Witness ==
  /\ lump_run.n = 2
  /\ lump_run.second = lump_run.first
  /\ SteadyDelay = 960
  /\ LastSend /\ last.path = "lumpy" /\ last.fresh = -1
  /\ ideal_next_packet_send_time = At(lump_run.first + 1920)
  /\ ~ReleaseDecision.allow_burst

\* ------------------------------------------------------------------ C12

\* C12: on_congestion_event calls sender.limit_cwnd exactly when the pacer is
\* enabled, a max_pacing_rate is set and rtt_updated is true; the call comes
\* after the event was forwarded to the sender and is the handler's last
\* step; its argument is the bytes that 1.25 times the max_pacing_rate
\* carries in one smoothed_rtt, truncated to an integer (39062 for 5 Mbps and
\* 50 ms).  No other operation calls limit_cwnd.
C12_CwndLimit ==
  IF last.op = "on_congestion_event"
    THEN LET rtt_updated == last.args[1]
             smoothed_rtt == last.args[8]
             due == enabled /\ max_pacing_rate.some /\ rtt_updated
         IN /\ Calls("sender.limit_cwnd") = (IF due THEN 1 ELSE 0)
            /\ trace[1].m = "sender.on_congestion_event"
            /\ due =>
                 /\ Len(trace) > 1
                 /\ trace[Len(trace)] =
                      Call("sender.limit_cwnd",
                           <<(((max_pacing_rate.rate * 5) \div 4)
                              * smoothed_rtt) \div 8000>>, Unit)
                 /\ (max_pacing_rate.rate = 5000 /\ smoothed_rtt = 50000) =>
                      trace[Len(trace)].args = <<39062>>
    ELSE Calls("sender.limit_cwnd") = 0

\* C12 witness: an enabled pacer capped at 5 Mbps handled an event with a
\* loss and an updated rtt of 50 ms and capped the window at 39062 bytes.
C12_Witness ==
  /\ last.op = "on_congestion_event"
  /\ enabled /\ max_pacing_rate = Some(5000)
  /\ last.args[1] /\ last.args[6] # <<>> /\ last.args[8] = 50000
  /\ Len(trace) = 3
  /\ trace[3] = Call("sender.limit_cwnd", <<39062>>, Unit)

\* ------------------------------------------------------------------ C13

\* C13: a retransmissible send on an enabled pacer that holds a burst token
\* after the quiescence refill, if any, takes the burst path: burst_tokens
\* goes down by exactly one, ideal_next_packet_send_time becomes Immediate,
\* pacing_limited becomes false, lumpy_tokens keeps its value, and no pacing
\* rate is asked for and no delay applied; the sender is not asked whether it
\* can send.
C13_BurstPathEffect ==
  (LastSend /\ enabled /\ SentRetransmissible) =>
    LET tokens == IF last.refill # -1 THEN last.refill ELSE prev.burst_tokens
    IN /\ last.path = "burst" <=> tokens > 0
       /\ last.path = "burst" =>
            /\ burst_tokens = tokens - 1
            /\ ideal_next_packet_send_time = Immediate
            /\ ~pacing_limited
            /\ lumpy_tokens = prev.lumpy_tokens
            /\ last.delay = 0
            /\ ~Asked("sender.pacing_rate")
            /\ ~Asked("sender.can_send")
            /\ ~Asked("sender.bandwidth_estimate")
            /\ trace[Len(trace)] = Write("pacing_limited", FALSE)

\* C13 witness: a quiescence exit took the burst path on a pacer that was
\* pacing limited with a lumpy token left and the clock at an instant.
C13_Witness ==
  /\ LastSend /\ last.path = "burst"
  /\ last.refill = 3 /\ burst_tokens = 2
  /\ prev.pacing_limited /\ ~pacing_limited
  /\ prev.lumpy_tokens = 1 /\ lumpy_tokens = 1
  /\ prev.ideal_next_packet_send_time.kind = "At"
  /\ ideal_next_packet_send_time = Immediate

\* ------------------------------------------------------------------ C14

\* C14: a lumpy-path send starts a fresh lump exactly when pacing_limited was
\* false or lumpy_tokens was 0.  The fresh lump is
\* max(1, min(2, floor(cwnd_in_packets * 0.25))), and 1 instead when the
\* bandwidth estimate is below 1200 kbps or the bytes in flight before the
\* send plus the packet reach the congestion window in bytes.  It is therefore
\* 1 or 2, and 2 only with a window of at least 8 packets, a bandwidth
\* estimate of at least 1200 kbps and a send that stays below the window.
C14_LumpyRefreshValue ==
  (LastSend /\ last.path = "lumpy") =>
    /\ last.fresh # -1 <=> (~prev.pacing_limited \/ prev.lumpy_tokens = 0)
    /\ last.fresh # -1 =>
         LET k == AnswerTo("sender.get_congestion_window_in_packets")
             window == AnswerTo("sender.get_congestion_window")
             estimate == AnswerTo("sender.bandwidth_estimate")
             reached == SentBytesInFlight + SentBytes >= window
             quarter == Max(1, Min(2, k \div 4))
         IN /\ last.fresh = (IF estimate < 1200 \/ reached THEN 1 ELSE quarter)
            /\ last.fresh \in {1, 2}
            /\ last.fresh = 2 <=> (k >= 8 /\ estimate >= 1200 /\ ~reached)
            /\ lumpy_tokens = last.fresh - 1

\* C14 witness: a window of exactly 8 packets, a high bandwidth estimate and a
\* send below the window started a lump of 2.
C14_Witness ==
  /\ LastSend /\ last.path = "lumpy"
  /\ last.fresh = 2
  /\ AnswerTo("sender.get_congestion_window_in_packets") = 8
  /\ AnswerTo("sender.bandwidth_estimate") >= 1200
  /\ SentBytesInFlight + SentBytes < AnswerTo("sender.get_congestion_window")
  /\ lumpy_tokens = 1

\* ------------------------------------------------------------------ C15

\* C15: every lumpy-path send leaves ideal_next_packet_send_time at the
\* instant max(previous, sent_time) + d, a previous value of Immediate
\* counting as sent_time and d being the transfer time of the packet at the
\* pacing rate for the bytes in flight after the send.  The new release time
\* is never earlier than sent_time + d and equals it when the previous value
\* was Immediate or not later than sent_time.
C15_ConsumeAndAdvance ==
  (LastSend /\ last.path = "lumpy") =>
    LET before == prev.ideal_next_packet_send_time
        start == IF before.kind = "Immediate" THEN SentTime
                 ELSE Max(before.at, SentTime)
        asked == CHOOSE i \in DOMAIN trace : trace[i].m = "sender.pacing_rate"
        d == transfer_time(PacingRate(trace[asked].ret), SentBytes)
    IN /\ Calls("sender.pacing_rate") = 1
       /\ trace[asked].args = <<SentBytesInFlight + SentBytes, last.args[6]>>
       /\ last.delay = d
       /\ ideal_next_packet_send_time = At(start + d)
       /\ ideal_next_packet_send_time.at >= SentTime + d
       /\ (before.kind = "Immediate" \/ before.at <= SentTime) =>
            ideal_next_packet_send_time.at = SentTime + d

\* C15 witness: a lumpy-path send found the clock at an instant before its
\* send time and left it one transfer time after the send time.
C15_Witness ==
  /\ LastSend /\ last.path = "lumpy"
  /\ prev.ideal_next_packet_send_time.kind = "At"
  /\ prev.ideal_next_packet_send_time.at < SentTime
  /\ last.delay = 960
  /\ ideal_next_packet_send_time = At(SentTime + 960)

\* ------------------------------------------------------------------ C16

\* C16: pacing_limited is true only if the last operation that changed a field
\* of the pacer was a lumpy-path send after which the sender could still send:
\* in a state where it is true, either the last operation was such a send or
\* the last operation changed no field and found it true.  It is false after
\* every on_app_limited, after every burst-path send and after every
\* lumpy-path send whose can_send answer was false; a lumpy-path send stores
\* the answer to can_send(bytes_in_flight + bytes).  A lumpy-path send that
\* finds it false, as the first one after on_app_limited does, starts a fresh
\* lump.
C16_PacingLimitedFlag ==
  /\ pacing_limited =>
       \/ LastSend /\ last.path = "lumpy" /\ AnswerTo("sender.can_send")
       \/ /\ prev.pacing_limited
          /\ Fields = prev
          /\ last.op # "on_app_limited"
          /\ ~(LastSend /\ last.path # "none")
  /\ last.op = "on_app_limited" => ~pacing_limited
  /\ (LastSend /\ last.path = "burst") => ~pacing_limited
  /\ (LastSend /\ last.path = "lumpy") =>
       /\ Calls("sender.can_send") = 1
       /\ pacing_limited = AnswerTo("sender.can_send")
       /\ \E i \in DOMAIN trace :
            /\ trace[i].m = "sender.can_send"
            /\ trace[i].args = <<SentBytesInFlight + SentBytes>>
       /\ ~prev.pacing_limited => last.fresh # -1

\* C16 witness: on_app_limited cleared the flag of a pacing-limited pacer that
\* held a lumpy token, so that the next lumpy-path send starts a fresh lump.
C16_Witness ==
  /\ last.op = "on_app_limited"
  /\ prev.pacing_limited /\ ~pacing_limited
  /\ lumpy_tokens = 1
  /\ ResetsLumpyTokens

\* ------------------------------------------------------------------ C17

\* The last operation was a lumpy-path send whose pacing rate was zero.
ZeroRateSend ==
  /\ LastSend /\ last.path = "lumpy"
  /\ PacingRate(AnswerTo("sender.pacing_rate")) = 0

\* C17 as stated: with a zero pacing rate the delay is 0 and the resulting
\* release time is Immediate.
C17_AsStated ==
  ZeroRateSend =>
    /\ last.delay = 0
    /\ ideal_next_packet_send_time = Immediate

\* C17: a lumpy-path send whose pacing rate is zero runs to its end (the
\* lumpy token is spent and the answer to can_send stored), its delay is 0,
\* and the release time it leaves is the instant max(previous, sent_time), a
\* previous value of Immediate counting as sent_time: the clock is not
\* advanced past the later of the two, and it is never the value Immediate.
C17_ZeroRateHandling ==
  ZeroRateSend =>
    LET before == prev.ideal_next_packet_send_time
    IN /\ last.delay = 0
       /\ ideal_next_packet_send_time =
            At(IF before.kind = "Immediate" THEN SentTime
               ELSE Max(before.at, SentTime))
       /\ ideal_next_packet_send_time # Immediate
       /\ lumpy_tokens =
            (IF last.fresh # -1 THEN last.fresh ELSE prev.lumpy_tokens) - 1
       /\ pacing_limited = AnswerTo("sender.can_send")

\* C17 witness: a send at a zero rate found the clock ahead of its send time
\* and left it there.
C17_Witness ==
  /\ ZeroRateSend
  /\ prev.ideal_next_packet_send_time.kind = "At"
  /\ prev.ideal_next_packet_send_time.at > SentTime
  /\ ideal_next_packet_send_time = prev.ideal_next_packet_send_time
  /\ last.delay = 0

\* ------------------------------------------------------------------ C18

\* C18: on_packet_neutered, on_retransmission_timeout and update_mss make
\* the one call that hands their argument to the sender and leave
\* burst_tokens, lumpy_tokens, ideal_next_packet_send_time and pacing_limited
\* as they were; on_app_limited changes none of the four but pacing_limited;
\* on_congestion_event never changes lumpy_tokens,
\* ideal_next_packet_send_time or pacing_limited.
C18_PassThroughFrame ==
  /\ last.op \in {"on_packet_neutered", "on_retransmission_timeout",
                  "update_mss"} =>
       /\ Fields = prev
       /\ trace = <<Call("sender." \o last.op, last.args, Unit)>>
  /\ last.op = "on_app_limited" =>
       /\ burst_tokens = prev.burst_tokens
       /\ lumpy_tokens = prev.lumpy_tokens
       /\ ideal_next_packet_send_time = prev.ideal_next_packet_send_time
       /\ Calls("sender.on_app_limited") = 1
  /\ last.op = "on_congestion_event" =>
       /\ lumpy_tokens = prev.lumpy_tokens
       /\ ideal_next_packet_send_time = prev.ideal_next_packet_send_time
       /\ pacing_limited = prev.pacing_limited

\* C18 witness: a retransmission timeout was forwarded by a pacing-limited
\* pacer whose clock stood at an instant and which held a lumpy token.
C18_Witness ==
  /\ last.op = "on_retransmission_timeout"
  /\ pacing_limited /\ lumpy_tokens = 1
  /\ ideal_next_packet_send_time.kind = "At"
  /\ Fields = prev

\* ------------------------------------------------------------------ C19

\* C19: no token count underflows, whatever the sender answers.  The burst
\* path subtracts one only from a burst_tokens of at least 1 and the lumpy
\* path subtracts one only from a lumpy_tokens of at least 1, after the
\* refresh when there is one; no field and no value ever assigned to a token
\* count is negative.
C19_NoTokenUnderflow ==
  /\ burst_tokens >= 0
  /\ lumpy_tokens >= 0
  /\ \A i \in DOMAIN trace :
       trace[i].m \in {"burst_tokens", "lumpy_tokens"} => trace[i].args[1] >= 0
  /\ (LastSend /\ last.path = "burst") =>
       /\ (IF last.refill # -1 THEN last.refill ELSE prev.burst_tokens) >= 1
       /\ burst_tokens + 1 >= 1
  /\ (LastSend /\ last.path = "lumpy") =>
       /\ (IF last.fresh # -1 THEN last.fresh ELSE prev.lumpy_tokens) >= 1
       /\ lumpy_tokens + 1 >= 1

\* C19 witness: a pacing-limited pacer without a lumpy token made a
\* lumpy-path send while the sender reported a window of 0 packets, and the
\* count went from the fresh 1 to 0.
C19_Witness ==
  /\ LastSend /\ last.path = "lumpy"
  /\ prev.pacing_limited /\ prev.lumpy_tokens = 0
  /\ AnswerTo("sender.get_congestion_window_in_packets") = 0
  /\ last.fresh = 1
  /\ lumpy_tokens = 0

\* ------------------------------------------------------------------ C20

\* C20: the pacer made by Pacer::new holds burst_tokens = 10,
\* lumpy_tokens = 0, a release time of Immediate and pacing_limited = false.
\* In every state between operations burst_tokens is at most
\* INITIAL_UNPACED_BURST (10) and lumpy_tokens is at most
\* LUMPY_PACING_SIZE - 1, that is 0 or 1.
C20_TokenBounds ==
  /\ last.op = "new" =>
       /\ burst_tokens = 10
       /\ lumpy_tokens = 0
       /\ ideal_next_packet_send_time = Immediate
       /\ ~pacing_limited
  /\ initial_burst_size = 10
  /\ burst_tokens <= INITIAL_UNPACED_BURST
  /\ lumpy_tokens <= LUMPY_PACING_SIZE - 1
  /\ lumpy_tokens \in {0, 1}

\* C20 witness: a pacer holding the lumpy token of an unfinished lump left
\* quiescence with a window of 12 packets; the refill granted 10 burst tokens
\* and the send spent one.
C20_Witness ==
  /\ LastSend /\ last.path = "burst"
  /\ last.refill = INITIAL_UNPACED_BURST
  /\ AnswerTo("sender.get_congestion_window_in_packets") = 12
  /\ burst_tokens = INITIAL_UNPACED_BURST - 1
  /\ lumpy_tokens = LUMPY_PACING_SIZE - 1

\* ------------------------------------------------------------------ C21

\* C21 (under AllocatorSpec): peek_next_id leaves the id field as it was and
\* returns it, and every id peeked since the last take_next_id is the id the
\* next take_next_id returns.  Counting from 0, the k-th take_next_id on the
\* default allocator returns 4 * k, so the ids handed out are multiples of 4,
\* strictly increasing and never repeated.
C21_StreamIdAllocator ==
  /\ id_last.op = "peek_next_id" =>
       /\ id = id_last.before
       /\ id_last.ret = id
  /\ \A p \in peeks : p = id
  /\ id_last.op = "take_next_id" =>
       /\ id_last.ret = id_last.before
       /\ id = id_last.before + 4
       /\ \A p \in id_last.peeked : p = id_last.ret
       /\ handed[Len(handed)] = id_last.ret
  /\ \A k \in 1 .. Len(handed) : handed[k] = 4 * (k - 1)
  /\ \A k \in 1 .. Len(handed) : handed[k] % 4 = 0
  /\ \A i, j \in 1 .. Len(handed) : i < j => handed[i] < handed[j]
  /\ id = 4 * Len(handed)

\* C21 witness: after two takes the id 8 was peeked twice and then taken.
C21_Witness ==
  /\ id_last.op = "take_next_id"
  /\ id_last.ret = 8 /\ id_last.before = 8 /\ id_last.peeked = {8}
  /\ handed = <<0, 4, 8>>
  /\ id = 12
  /\ peeks = {}

====
